---- MODULE Spec2Model ----
(***************************************************************************)
(* Files service: the File record store (service/models/files.py), the     *)
(* object store client (service/common/s3_handler.py) and the REST         *)
(* handlers that drive a record through its upload lifecycle               *)
(* (service/routes/files.py).                                              *)
(*                                                                         *)
(* Requests are handled one at a time ("each HTTP request is handled to    *)
(* completion before the response is sent"): the upload handler is split   *)
(* into the steps between its commits so that the intermediate persisted   *)
(* states are states of the model, and while it is in flight only readers  *)
(* (GET /files/{id}) may take steps.  A read of the clock is part of the   *)
(* step that commits it.                                                   *)
(***************************************************************************)
EXTENDS Integers, Sequences, FiniteSets, TLC

(* ------------------------------ bounds -------------------------------- *)
MaxRecords == 2
MaxTime == 1
MaxBatch == 2
MaxRequests == 3

(* --------------------------- enumerations ----------------------------- *)
CREATED == "CREATED"
UPLOADING == "UPLOADING"
UPLOAD_SUCCESS == "UPLOAD_SUCCESS"
UPLOAD_FAILED == "UPLOAD_FAILED"
PROCESSING == "PROCESSING"
PROCESSING_FAILED == "PROCESSING_FAILED"
SUCCESS == "SUCCESS"

FileStatus ==
  {CREATED, UPLOADING, UPLOAD_SUCCESS, UPLOAD_FAILED, PROCESSING,
   PROCESSING_FAILED, SUCCESS}

KNOWLEDGE == "KNOWLEDGE"

HTTP_200_OK == 200
HTTP_201_CREATED == 201
HTTP_204_NO_CONTENT == 204
HTTP_400_BAD_REQUEST == 400
HTTP_404_NOT_FOUND == 404
HTTP_415_UNSUPPORTED_MEDIA_TYPE == 415
HTTP_500_INTERNAL_SERVER_ERROR == 500

(* ------------------------- names, paths, keys ------------------------- *)
(* A filename is the sequence of its "/"-separated segments; <<>> is the   *)
(* empty filename.                                                         *)
NoName == <<>>

(* file.filename.split("/")[-1] *)
FinalSegment(fn) == IF Len(fn) = 0 THEN NoName ELSE <<fn[Len(fn)]>>

(* conf.AWS_S3_PREFIX.format(webbot_id=w) + filename; prefix 0 stands for  *)
(* a key that does not start with a "webbot/<id>/" prefix.                 *)
S3Key(w, fn) == [prefix |-> w, file |-> fn]

(* the column default of s3_path, the empty string *)
NoPath == S3Key(0, NoName)

(* os.path.join(conf.LOCAL_FILE_PATH.format(webbot_id=w), filename) *)
StagingPath(w, fn) == [dir |-> w, sub |-> "staging", file |-> fn]

(* conf.DOWNLOADS_PATH.format(webbot_id=w) + filename *)
DownloadPath(w, fn) == [dir |-> w, sub |-> "downloads", file |-> fn]

(* mimetypes.guess_type(filename)[0]; an unknown type is stored as the     *)
(* column default ""                                                       *)
GuessType(fn) ==
  IF Len(fn) = 0 THEN ""
  ELSE IF fn[Len(fn)] = "a.txt" THEN "text/plain"
  ELSE IF fn[Len(fn)] = "b.pdf" THEN "application/pdf"
  ELSE ""

(* ------------------------------- state -------------------------------- *)
VARIABLES
  db,        \* committed rows of the files table: id -> row
  nextId,    \* the primary-key sequence
  now,       \* the last value datetime.utcnow() returned
  s3,        \* the bucket: key -> content
  disk,      \* local files (staging and downloads directories): path -> content
  upl,       \* the upload request in flight
  resp,      \* the response of the last completed request
  nreq,      \* number of requests accepted so far
  sent,      \* history: id -> key and content of each push that succeeded
  sess       \* per worker, its database session: the instances with
             \* uncommitted changes and the PUT it is handling

vars == <<db, nextId, now, s3, disk, upl, resp, nreq, sent, sess>>

Ids == DOMAIN db

(* Files(): a new, unsaved instance with the column defaults *)
NewFiles ==
  [id |-> 0, webbot_id |-> 0, name |-> NoName, s3_path |-> NoPath,
   file_type |-> "", source |-> KNOWLEDGE, source_url |-> "None",
   created_date |-> 0, modified_date |-> 0, active |-> TRUE,
   status |-> CREATED, allow_questions |-> TRUE, public |-> FALSE,
   labels |-> "{}", extra_info |-> "{}"]

NoResp ==
  [op |-> "none", code |-> 0, id |-> 0, status |-> "", file_count |-> 0,
   results |-> <<>>, content |-> 0, download_name |-> NoName,
   fetched |-> FALSE, listed |-> {}, query |-> {}, error |-> "",
   record |-> NewFiles]

IdleUpload ==
  [pc |-> "idle", webbot_id |-> 0, file_count |-> 0, i |-> 0,
   file |-> [filename |-> NoName, content |-> 0],
   file_meta |-> NewFiles, file_path |-> StagingPath(0, NoName),
   results |-> <<>>, pushed |-> <<>>]

(* history of one submitted file: "skipped" (falsy), "OSError" (staging    *)
(* raised), or how the push to the object store ended, and under which key *)
Passed(outcome) == [outcome |-> outcome, key |-> NoPath]

NoPush == Passed("none")

(* f with key k bound to v *)
Store(f, k, v) == [x \in (DOMAIN f) \cup {k} |-> IF x = k THEN v ELSE f[x]]

(* --------------------------- the record store ------------------------- *)
(* create() stamping the two readings of the clock the other way round *)
CreateRow_StampsSwapped(self, id, t1, t2) ==
  [self EXCEPT !.id = id, !.created_date = t2, !.modified_date = t1]

(* create() committing the row without the id the sequence gave it *)
CreateRow_KeepsId(self, id, t1, t2) ==
  [self EXCEPT !.created_date = t1, !.modified_date = t2]

(* Files.create: a fresh id, the two timestamps read from the clock one     *)
(* after the other, one commit                                             *)
CreateRow(self, id, t1, t2) ==
  [self EXCEPT !.id = id, !.created_date = t1, !.modified_date = t2]

(* Files.update: the modified timestamp refreshed, all fields committed *)
UpdateRow(self, t) == [self EXCEPT !.modified_date = t]

(* update() without the test of the id *)
Update_NoGuard(self, t) == [err |-> "", rec |-> UpdateRow(self, t)]

(* Files.update as called: without an id it raises and commits nothing *)
Update(self, t) ==
  IF self.id = 0 THEN [err |-> "DataValidationError", rec |-> self]
  ELSE [err |-> "", rec |-> UpdateRow(self, t)]

(* Files.delete: logical deletion *)
DeleteRow(self, t) == [self EXCEPT !.active = FALSE, !.modified_date = t]

(* Files.find *)
Find(file_id) == IF file_id \in Ids THEN db[file_id] ELSE NewFiles

(* ---------------------------- request bodies -------------------------- *)
(* A request body: kind "dict" is a JSON object whose keys are `has`;      *)
(* any other kind is a body that is not an object (string, number, list,   *)
(* null).  webbot_id carries whether int() accepts the value.              *)
IntValue(n) == [ok |-> TRUE, val |-> n]
NotAnInt == [ok |-> FALSE, val |-> 0]

Body(kind, has, name, webbot_id, status, s3_path, active, labels) ==
  [kind |-> kind, has |-> has, name |-> name, webbot_id |-> webbot_id,
   status |-> status, s3_path |-> s3_path, active |-> active,
   labels |-> labels, file_type |-> "application/pdf", source |-> "WEB",
   allow_questions |-> FALSE, extra_info |-> "{extra}",
   source_url |-> "http://x", public |-> TRUE]

Bodies ==
  { Body("dict", {"name", "webbot_id"}, <<"a.txt">>, IntValue(1),
         CREATED, NoPath, TRUE, "{}"),
    Body("dict", {"name", "webbot_id", "status", "s3_path", "active", "labels",
                  "file_type", "source", "allow_questions", "extra_info",
                  "source_url", "public"},
         <<"b.pdf">>, IntValue(2), UPLOAD_SUCCESS, S3Key(0, <<"rsgrs">>),
         FALSE, "{label}"),
    Body("dict", {"name", "labels"}, <<"b.pdf">>, IntValue(0),
         CREATED, NoPath, TRUE, "{label}"),
    Body("dict", {"name", "webbot_id"}, <<"b.pdf">>, NotAnInt,
         CREATED, NoPath, TRUE, "{}"),
    Body("dict", {}, NoName, IntValue(0), CREATED, NoPath, TRUE, "{}"),
    Body("string", {}, NoName, IntValue(0), CREATED, NoPath, TRUE, "{}"),
    Body("number", {}, NoName, IntValue(0), CREATED, NoPath, TRUE, "{}"),
    Body("list", {}, NoName, IntValue(0), CREATED, NoPath, TRUE, "{}"),
    Body("None", {}, NoName, IntValue(0), CREATED, NoPath, TRUE, "{}") }

(* data.get(key, default) *)
Get(data, key, default) == IF key \in data.has THEN data[key] ELSE default

(* deserialize taking webbot_id as it comes, without int() *)
Deserialize_NoCoercion(self, data) ==
  IF data.kind # "dict" THEN [err |-> "TypeError", rec |-> self]
  ELSE IF "name" \notin data.has THEN [err |-> "KeyError", rec |-> self]
  ELSE
    LET r1 == [self EXCEPT !.name = data.name,
                           !.labels = Get(data, "labels", "{}")]
    IN IF "webbot_id" \notin data.has THEN [err |-> "KeyError", rec |-> r1]
       ELSE [err |-> "",
             rec |-> [r1 EXCEPT
               !.webbot_id = data.webbot_id.val,
               !.s3_path = Get(data, "s3_path", NoPath),
               !.file_type = Get(data, "file_type", ""),
               !.source = Get(data, "source", KNOWLEDGE),
               !.active = Get(data, "active", TRUE),
               !.status = Get(data, "status", CREATED),
               !.allow_questions = Get(data, "allow_questions", TRUE),
               !.extra_info = Get(data, "extra_info", "{}"),
               !.source_url = Get(data, "source_url", "None"),
               !.public = Get(data, "public", FALSE)]]

(* Files.deserialize: the assignments in source order; err names the        *)
(* exception that stopped them, rec is the instance as they left it.        *)
Deserialize(self, data) ==
  IF data.kind # "dict" THEN [err |-> "TypeError", rec |-> self]
  ELSE IF "name" \notin data.has THEN [err |-> "KeyError", rec |-> self]
  ELSE
    LET r1 == [self EXCEPT !.name = data.name,
                           !.labels = Get(data, "labels", "{}")]
    IN IF "webbot_id" \notin data.has THEN [err |-> "KeyError", rec |-> r1]
       ELSE IF ~data.webbot_id.ok THEN [err |-> "ValueError", rec |-> r1]
       ELSE [err |-> "",
             rec |-> [r1 EXCEPT
               !.webbot_id = data.webbot_id.val,
               !.s3_path = Get(data, "s3_path", NoPath),
               !.file_type = Get(data, "file_type", ""),
               !.source = Get(data, "source", KNOWLEDGE),
               !.active = Get(data, "active", TRUE),
               !.status = Get(data, "status", CREATED),
               !.allow_questions = Get(data, "allow_questions", TRUE),
               !.extra_info = Get(data, "extra_info", "{}"),
               !.source_url = Get(data, "source_url", "None"),
               !.public = Get(data, "public", FALSE)]]

(* datetime.isoformat() *)
IsoFormat(t) == <<"isoformat", t>>

SerializedKeys ==
  {"id", "name", "labels", "webbot_id", "s3_path", "file_type",
   "created_date", "modified_date", "active", "status", "allow_questions",
   "extra_info", "source", "source_url", "public", "file_id"}

(* serialize leaving the status out of the dictionary *)
Serialize_NoStatus(self) ==
  [kind |-> "dict", has |-> SerializedKeys \ {"status"},
   id |-> self.id, name |-> self.name, labels |-> self.labels,
   webbot_id |-> IntValue(self.webbot_id), s3_path |-> self.s3_path,
   file_type |-> self.file_type,
   created_date |-> IsoFormat(self.created_date),
   modified_date |-> IsoFormat(self.modified_date),
   active |-> self.active, status |-> self.status,
   allow_questions |-> self.allow_questions,
   extra_info |-> self.extra_info, source |-> self.source,
   source_url |-> self.source_url, public |-> self.public,
   file_id |-> self.id]

(* Files.serialize: the dictionary of a record; its webbot_id is an        *)
(* integer, which int() accepts                                            *)
Serialize(self) ==
  [kind |-> "dict", has |-> SerializedKeys,
   id |-> self.id, name |-> self.name, labels |-> self.labels,
   webbot_id |-> IntValue(self.webbot_id), s3_path |-> self.s3_path,
   file_type |-> self.file_type,
   created_date |-> IsoFormat(self.created_date),
   modified_date |-> IsoFormat(self.modified_date),
   active |-> self.active, status |-> self.status,
   allow_questions |-> self.allow_questions,
   extra_info |-> self.extra_info, source |-> self.source,
   source_url |-> self.source_url, public |-> self.public,
   file_id |-> self.id]

ContentTypes == {"application/json", "text/html", "none"}

(* check_content_type letting every request through *)
CheckContentType_Any(ct) == TRUE

(* check_content_type: TRUE when the request is let through *)
CheckContentType(ct) == ct = "application/json"

Response(op, code, id) == [NoResp EXCEPT !.op = op, !.code = code, !.id = id]

(* the workers that serve requests, each with a session of its own *)
Workers == {"w1", "w2"}

(* a session that holds no instance *)
NoSession ==
  [pc |-> "idle", id |-> 0,
   dirty |-> [i \in {} |-> [loaded |-> NewFiles, rec |-> NewFiles]]]

Init ==
  /\ sess = [w \in Workers |-> NoSession]
  /\ db = [i \in {} |-> NewFiles]
  /\ nextId = 1
  /\ now = 0
  /\ s3 = [k \in {} |-> 0]
  /\ disk = [p \in {} |-> 0]
  /\ upl = IdleUpload
  /\ resp = NoResp
  /\ nreq = 0
  /\ sent = [i \in {} |-> [key |-> NoPath, content |-> 0]]

(* datetime.utcnow() returning t: the clock never runs backwards *)
Times == 0..MaxTime

Utcnow(t) == t \in now..MaxTime

Idle == upl.pc = "idle"

(* a new request is accepted: none is in flight *)
Accept ==
  /\ Idle
  /\ nreq < MaxRequests
  /\ nreq' = nreq + 1

RequestIds == 1..(MaxRecords + 1)

(* FilesCollection.post *)
Post(ct, data, t1, t2) ==
  /\ Accept
  /\ nextId <= MaxRecords
  /\ Utcnow(t1) /\ Utcnow(t2) /\ t1 <= t2
  /\ IF ~CheckContentType(ct)
     THEN /\ resp' = Response("post", HTTP_415_UNSUPPORTED_MEDIA_TYPE, 0)
          /\ UNCHANGED <<db, nextId, now>>
     ELSE LET d == Deserialize(NewFiles, data) IN
          IF d.err # ""
          THEN /\ resp' = Response("post", HTTP_400_BAD_REQUEST, 0)
               /\ UNCHANGED <<db, nextId, now>>
          ELSE /\ db' = Store(db, nextId, CreateRow(d.rec, nextId, t1, t2))
               /\ nextId' = nextId + 1
               /\ now' = t2
               /\ resp' = Response("post", HTTP_201_CREATED, nextId)
  /\ UNCHANGED <<s3, disk, upl, sent>>
  /\ UNCHANGED sess

(* FilesResource.put *)
Put(ct, file_id, data, t) ==
  /\ Accept
  /\ Utcnow(t)
  /\ IF ~CheckContentType(ct)
     THEN /\ resp' = Response("put", HTTP_415_UNSUPPORTED_MEDIA_TYPE, file_id)
          /\ UNCHANGED <<db, now>>
     ELSE IF file_id \notin Ids
     THEN /\ resp' = Response("put", HTTP_404_NOT_FOUND, file_id)
          /\ UNCHANGED <<db, now>>
     ELSE LET d == Deserialize(Find(file_id), data) IN
          IF d.err # ""
          THEN /\ resp' = Response("put", HTTP_400_BAD_REQUEST, file_id)
               /\ UNCHANGED <<db, now>>
          ELSE /\ db' = [db EXCEPT ![file_id] =
                           UpdateRow([d.rec EXCEPT !.id = file_id], t)]
               /\ now' = t
               /\ resp' = Response("put", HTTP_200_OK, file_id)
  /\ UNCHANGED <<nextId, s3, disk, upl, sent>>
  /\ UNCHANGED sess

(* Delete removing the row instead of marking it *)
Delete_RemovesRow(file_id, t) ==
  /\ Accept
  /\ Utcnow(t)
  /\ IF file_id \in Ids
     THEN /\ db' = [id \in Ids \ {file_id} |-> db[id]]
          /\ now' = t
     ELSE UNCHANGED <<db, now>>
  /\ resp' = [Response("delete", HTTP_204_NO_CONTENT, file_id) EXCEPT
                !.record = Find(file_id)]
  /\ UNCHANGED <<nextId, s3, disk, upl, sent>>
  /\ UNCHANGED sess

(* Delete answering 404 for an id without a record *)
Delete_AbsentIsNotFound(file_id, t) ==
  /\ Accept
  /\ Utcnow(t)
  /\ IF file_id \in Ids
     THEN /\ db' = [db EXCEPT ![file_id] = DeleteRow(Find(file_id), t)]
          /\ now' = t
          /\ resp' = [Response("delete", HTTP_204_NO_CONTENT, file_id) EXCEPT
                        !.record = Find(file_id)]
     ELSE /\ UNCHANGED <<db, now>>
          /\ resp' = Response("delete", HTTP_404_NOT_FOUND, file_id)
  /\ UNCHANGED <<nextId, s3, disk, upl, sent>>
  /\ UNCHANGED sess

(* FilesResource.delete *)
Delete(file_id, t) ==
  /\ Accept
  /\ Utcnow(t)
  /\ IF file_id \in Ids
     THEN /\ db' = [db EXCEPT ![file_id] = DeleteRow(Find(file_id), t)]
          /\ now' = t
     ELSE UNCHANGED <<db, now>>
  /\ resp' = [Response("delete", HTTP_204_NO_CONTENT, file_id) EXCEPT
                !.record = Find(file_id)]
  /\ UNCHANGED <<nextId, s3, disk, upl, sent>>
  /\ UNCHANGED sess

(* GET answering 404 for a record that is not active *)
GetFile_HidesInactive(file_id) ==
  /\ nreq < MaxRequests
  /\ nreq' = nreq + 1
  /\ IF file_id \in Ids /\ Find(file_id).active
     THEN resp' = [Response("get", HTTP_200_OK, file_id) EXCEPT
                     !.status = Find(file_id).status,
                     !.record = Find(file_id)]
     ELSE resp' = Response("get", HTTP_404_NOT_FOUND, file_id)
  /\ UNCHANGED <<db, nextId, now, s3, disk, upl, sent>>
  /\ UNCHANGED sess

(* FilesResource.get; a reader may issue it at any moment, also while an   *)
(* upload is in flight                                                     *)
GetFile(file_id) ==
  /\ nreq < MaxRequests
  /\ nreq' = nreq + 1
  /\ IF file_id \in Ids
     THEN resp' = [Response("get", HTTP_200_OK, file_id) EXCEPT
                     !.status = Find(file_id).status,
                     !.record = Find(file_id)]
     ELSE resp' = Response("get", HTTP_404_NOT_FOUND, file_id)
  /\ UNCHANGED <<db, nextId, now, s3, disk, upl, sent>>
  /\ UNCHANGED sess

(* ------------------------------ listing ------------------------------- *)
(* Files.all without its filter *)
All_Everything == Ids

(* Files.all *)
All == {id \in Ids : db[id].active = TRUE}

(* request.args: the criteria of a listing, a set of <<column, value>>     *)
(* with one value per column                                               *)
QueryArgs ==
  { {},
    {<<"webbot_id", 1>>},
    {<<"webbot_id", 2>>},
    {<<"name", <<"a.txt">> >>},
    {<<"status", CREATED>>},
    {<<"active", FALSE>>},
    {<<"webbot_id", 1>>, <<"active", TRUE>>} }

(* filter_by restricted to active records *)
FilterBy_ActiveOnly(query_args) ==
  {id \in Ids : db[id].active /\ \A c \in query_args : db[id][c[1]] = c[2]}

(* Files.query.filter_by with the criteria as keyword arguments: equality  *)
(* on every given column                                                   *)
FilterBy(query_args) ==
  {id \in Ids : \A c \in query_args : db[id][c[1]] = c[2]}

(* FilesCollection.get *)
ListFiles(query_args) ==
  /\ Accept
  /\ LET files == IF Cardinality(query_args) > 0 THEN FilterBy(query_args)
                  ELSE All
     IN resp' = [Response("list", HTTP_200_OK, 0) EXCEPT
                   !.listed = files, !.query = query_args]
  /\ UNCHANGED <<db, nextId, now, s3, disk, upl, sent>>
  /\ UNCHANGED sess

(* A comparison `cls.column == value` builds a clause out of the column    *)
(* and a bound parameter.                                                  *)
Eq(column, value) ==
  [left |-> <<"Column", column>>, right |-> <<"BindParameter">>,
   column |-> column, value |-> value]

(* bool(clause) of an == clause: whether its two operands are the same     *)
(* object                                                                  *)
Bool(clause) == clause.left = clause.right

(* Python's `a and b`: a when a is falsy, b otherwise *)
And(a, b) == IF Bool(a) THEN b ELSE a

(* cls.query.filter(clause) *)
Filter(clause) == {id \in Ids : db[id][clause.column] = clause.value}

(* Files.find_by_name *)
find_by_name(name) == Filter(And(Eq("name", name), Eq("active", TRUE)))

(* Files.find_by_webbot_id *)
find_by_webbot_id(webbot_id) ==
  Filter(And(Eq("webbot_id", webbot_id), Eq("active", TRUE)))

(* ----------------------- calls of the record store -------------------- *)
(* The finders have no route; they are called on the model class.          *)
FindByName(name) ==
  /\ Accept
  /\ resp' = [Response("find_by_name", 0, 0) EXCEPT
                !.listed = find_by_name(name),
                !.query = {<<"name", name>>}]
  /\ UNCHANGED <<db, nextId, now, s3, disk, upl, sent>>
  /\ UNCHANGED sess

FindByWebbotId(webbot_id) ==
  /\ Accept
  /\ resp' = [Response("find_by_webbot_id", 0, 0) EXCEPT
                !.listed = find_by_webbot_id(webbot_id),
                !.query = {<<"webbot_id", webbot_id>>}]
  /\ UNCHANGED <<db, nextId, now, s3, disk, upl, sent>>
  /\ UNCHANGED sess

(* update() called on an instance: the one found under file_id, or a new   *)
(* unsaved one when there is none, after it took its fields from data      *)
UpdateCall(file_id, data, t) ==
  /\ Accept
  /\ Utcnow(t)
  /\ LET d == Deserialize(Find(file_id), data)
         u == Update(d.rec, t)
     IN /\ d.err = ""
        /\ IF u.err # ""
           THEN /\ resp' = [Response("update", 0, d.rec.id) EXCEPT
                              !.error = u.err, !.record = d.rec]
                /\ UNCHANGED <<db, now>>
           ELSE /\ db' = [db EXCEPT ![d.rec.id] = u.rec]
                /\ now' = t
                /\ resp' = [Response("update", 0, d.rec.id) EXCEPT
                              !.record = d.rec]
  /\ UNCHANGED <<nextId, s3, disk, upl, sent>>
  /\ UNCHANGED sess

(* ------------------------------ upload -------------------------------- *)
WebbotIds == {1}
UploadNames == {<<"a.txt">>, <<"d", "a.txt">>, NoName}
Contents == {1, 2}
UploadFiles == [filename : UploadNames, content : Contents]

(* bool(file): a FileStorage without a filename is falsy *)
Truthy(file) == file.filename # NoName

StageOutcomes == {"ok", "OSError"}
TransferOutcomes == {"ok", "ClientError", "OtherError"}

(* os.path.basename(local_path) *)
Basename(path) == path.file

(* UploadFile.post, "files[]" missing from the request *)
UploadNoFiles(webbot_id) ==
  /\ Accept
  /\ resp' = Response("upload", HTTP_400_BAD_REQUEST, 0)
  /\ UNCHANGED <<db, nextId, now, s3, disk, upl, sent>>
  /\ UNCHANGED sess

(* UploadFile.post up to the loop over the submitted files; the request    *)
(* carries file_count files, which the loop reads one at a time            *)
UploadBegin(webbot_id, file_count) ==
  /\ Accept
  /\ nextId + file_count <= MaxRecords + 1
  /\ upl' = [IdleUpload EXCEPT !.pc = "loop", !.webbot_id = webbot_id,
                               !.file_count = file_count, !.i = 1]
  /\ UNCHANGED <<db, nextId, now, s3, disk, resp, sent>>
  /\ UNCHANGED sess

(* `if file:` is false: the file is passed over *)
UploadSkip(file) ==
  /\ upl.pc = "loop"
  /\ upl.i <= upl.file_count
  /\ ~Truthy(file)
  /\ upl' = [upl EXCEPT !.i = upl.i + 1,
                        !.pushed = Append(upl.pushed, Passed("skipped"))]
  /\ UNCHANGED <<db, nextId, now, s3, disk, resp, nreq, sent>>
  /\ UNCHANGED sess

(* UploadCreate leaving the status at the column default *)
UploadCreate_DefaultStatus(file, t1, t2) ==
  /\ upl.pc = "loop"
  /\ upl.i <= upl.file_count
  /\ Truthy(file)
  /\ Utcnow(t1) /\ Utcnow(t2) /\ t1 <= t2
  /\ LET file_meta == [NewFiles EXCEPT !.name = file.filename,
                                       !.webbot_id = upl.webbot_id,
                                       !.file_type = GuessType(file.filename)]
         row == CreateRow(file_meta, nextId, t1, t2)
     IN /\ db' = Store(db, nextId, row)
        /\ nextId' = nextId + 1
        /\ now' = t2
        /\ upl' = [upl EXCEPT !.pc = "stage", !.file_meta = row,
                              !.file = file,
                              !.pushed = Append(upl.pushed, NoPush)]
  /\ UNCHANGED <<s3, disk, resp, nreq, sent>>
  /\ UNCHANGED sess

(* file_meta = Files(); name, status, webbot_id, file_type; create() *)
UploadCreate(file, t1, t2) ==
  /\ upl.pc = "loop"
  /\ upl.i <= upl.file_count
  /\ Truthy(file)
  /\ Utcnow(t1) /\ Utcnow(t2) /\ t1 <= t2
  /\ LET file_meta == [NewFiles EXCEPT !.name = file.filename,
                                       !.status = UPLOADING,
                                       !.webbot_id = upl.webbot_id,
                                       !.file_type = GuessType(file.filename)]
         row == CreateRow(file_meta, nextId, t1, t2)
     IN /\ db' = Store(db, nextId, row)
        /\ nextId' = nextId + 1
        /\ now' = t2
        /\ upl' = [upl EXCEPT !.pc = "stage", !.file_meta = row,
                              !.file = file,
                              !.pushed = Append(upl.pushed, NoPush)]
  /\ UNCHANGED <<s3, disk, resp, nreq, sent>>
  /\ UNCHANGED sess

(* the filename cut to its final segment; file.save(file_path) *)
UploadStage(outcome) ==
  /\ upl.pc = "stage"
  /\ LET filename == FinalSegment(upl.file.filename)
         file_path == StagingPath(upl.webbot_id, filename)
         file == [upl.file EXCEPT !.filename = filename]
     IN IF outcome = "ok"
        THEN /\ disk' = Store(disk, file_path, file.content)
             /\ upl' = [upl EXCEPT !.pc = "push", !.file = file,
                                   !.file_path = file_path]
        ELSE /\ upl' = [upl EXCEPT !.pc = "except", !.file = file,
                                   !.file_path = file_path,
                                   !.pushed[upl.i] = Passed("OSError")]
             /\ UNCHANGED disk
  /\ UNCHANGED <<db, nextId, now, s3, resp, nreq, sent>>
  /\ UNCHANGED sess

(* S3Handler.upload_files as the upload calls it: ClientError is swallowed  *)
(* into the return value, which the caller drops; anything else is raised   *)
UploadPush(outcome) ==
  /\ upl.pc = "push"
  /\ LET key == S3Key(upl.webbot_id, Basename(upl.file_path))
         content == disk[upl.file_path]
     IN /\ IF outcome = "ok"
           THEN /\ s3' = Store(s3, key, content)
                /\ sent' = Store(sent, upl.file_meta.id,
                                 [key |-> key, content |-> content])
           ELSE UNCHANGED <<s3, sent>>
        /\ upl' = [upl EXCEPT
             !.pc = IF outcome = "OtherError" THEN "except" ELSE "record",
             !.pushed[upl.i] = [outcome |-> outcome, key |-> key]]
  /\ UNCHANGED <<db, nextId, now, disk, resp, nreq>>
  /\ UNCHANGED sess

(* UploadRecord taking the key from the filename as it was submitted *)
UploadRecord_SubmittedName(t) ==
  /\ Utcnow(t)
  /\ upl.pc = "record"
  /\ LET file_meta ==
           UpdateRow([upl.file_meta EXCEPT
                        !.s3_path = S3Key(upl.webbot_id, upl.file_meta.name),
                        !.status = UPLOAD_SUCCESS], t)
     IN /\ now' = t
        /\ db' = [db EXCEPT ![file_meta.id] = file_meta]
        /\ upl' = [upl EXCEPT !.pc = "append", !.file_meta = file_meta]
  /\ UNCHANGED <<nextId, s3, disk, resp, nreq, sent>>
  /\ UNCHANGED sess

(* s3_path and UPLOAD_SUCCESS assigned, update(); the analysis stage is off *)
UploadRecord(t) ==
  /\ Utcnow(t)
  /\ upl.pc = "record"
  /\ LET file_meta ==
           UpdateRow([upl.file_meta EXCEPT
                        !.s3_path = S3Key(upl.webbot_id, upl.file.filename),
                        !.status = UPLOAD_SUCCESS], t)
     IN /\ now' = t
        /\ db' = [db EXCEPT ![file_meta.id] = file_meta]
        /\ upl' = [upl EXCEPT !.pc = "append", !.file_meta = file_meta]
  /\ UNCHANGED <<nextId, s3, disk, resp, nreq, sent>>
  /\ UNCHANGED sess

(* UploadExcept assigning UPLOAD_FAILED without calling update() *)
UploadExcept_NoUpdate(t) ==
  /\ Utcnow(t)
  /\ upl.pc = "except"
  /\ upl' = [upl EXCEPT !.pc = "append",
                        !.file_meta.status = UPLOAD_FAILED]
  /\ UNCHANGED <<db, now, nextId, s3, disk, resp, nreq, sent>>
  /\ UNCHANGED sess

(* UploadExcept without leaving the try body: the success path runs on *)
UploadExcept_FallsThrough(t) ==
  /\ Utcnow(t)
  /\ upl.pc = "except"
  /\ LET file_meta ==
           UpdateRow([upl.file_meta EXCEPT !.status = UPLOAD_FAILED], t)
     IN /\ now' = t
        /\ db' = [db EXCEPT ![file_meta.id] = file_meta]
        /\ upl' = [upl EXCEPT !.pc = "record", !.file_meta = file_meta]
  /\ UNCHANGED <<nextId, s3, disk, resp, nreq, sent>>
  /\ UNCHANGED sess

(* except Exception: UPLOAD_FAILED assigned, update() *)
UploadExcept(t) ==
  /\ Utcnow(t)
  /\ upl.pc = "except"
  /\ LET file_meta ==
           UpdateRow([upl.file_meta EXCEPT !.status = UPLOAD_FAILED], t)
     IN /\ now' = t
        /\ db' = [db EXCEPT ![file_meta.id] = file_meta]
        /\ upl' = [upl EXCEPT !.pc = "append", !.file_meta = file_meta]
  /\ UNCHANGED <<nextId, s3, disk, resp, nreq, sent>>
  /\ UNCHANGED sess

(* the result entry reporting success whatever the record says *)
UploadAppend_AlwaysSuccess ==
  /\ upl.pc = "append"
  /\ upl' = [upl EXCEPT
       !.pc = "loop", !.i = upl.i + 1,
       !.results = Append(upl.results,
          [file_id |-> upl.file_meta.id, filename |-> upl.file_meta.name,
           status |-> UPLOAD_SUCCESS, tables |-> <<>>,
           text_file_id |-> 0, table_count |-> 0])]
  /\ UNCHANGED <<db, nextId, now, s3, disk, resp, nreq, sent>>
  /\ UNCHANGED sess

(* files_meta.append({...}) *)
UploadAppend ==
  /\ upl.pc = "append"
  /\ upl' = [upl EXCEPT
       !.pc = "loop", !.i = upl.i + 1,
       !.results = Append(upl.results,
          [file_id |-> upl.file_meta.id, filename |-> upl.file_meta.name,
           status |-> upl.file_meta.status, tables |-> <<>>,
           text_file_id |-> 0, table_count |-> 0])]
  /\ UNCHANGED <<db, nextId, now, s3, disk, resp, nreq, sent>>
  /\ UNCHANGED sess

(* the batch response after the loop *)
UploadReturn ==
  /\ upl.pc = "loop"
  /\ upl.i > upl.file_count
  /\ resp' = [Response("upload", HTTP_200_OK, 0) EXCEPT
                !.file_count = upl.file_count, !.results = upl.results]
  /\ upl' = IdleUpload
  /\ UNCHANGED <<db, nextId, now, s3, disk, nreq, sent>>
  /\ UNCHANGED sess

(* ----------------------------- download ------------------------------- *)
(* DownloadFile.get with S3Handler.download_files: ClientError is swallowed *)
(* and send_file serves whatever is at the local path                       *)
Download(webbot_id, file_id, outcome) ==
  /\ Accept
  /\ IF file_id \notin Ids
     THEN /\ resp' = Response("download", HTTP_500_INTERNAL_SERVER_ERROR,
                              file_id)
          /\ UNCHANGED disk
     ELSE LET file == Find(file_id)
              filename == file.name
              s3_path == file.s3_path
              local_file_path == DownloadPath(webbot_id, filename)
          IN /\ outcome = "ok" => s3_path \in DOMAIN s3
             /\ disk' = IF outcome = "ok"
                        THEN Store(disk, local_file_path, s3[s3_path])
                        ELSE disk
             /\ IF outcome = "OtherError" \/ local_file_path \notin DOMAIN disk'
                THEN resp' = [Response("download",
                                       HTTP_500_INTERNAL_SERVER_ERROR,
                                       file_id) EXCEPT
                                !.error = IF outcome = "OtherError"
                                          THEN outcome
                                          ELSE "FileNotFoundError"]
                ELSE resp' = [Response("download", HTTP_200_OK, file_id) EXCEPT
                                !.content = disk'[local_file_path],
                                !.download_name = filename,
                                !.fetched = (outcome = "ok")]
  /\ UNCHANGED <<db, nextId, now, s3, upl, sent>>
  /\ UNCHANGED sess

Next ==
  \/ \E webbot_id \in WebbotIds : UploadNoFiles(webbot_id)
  \/ \E webbot_id \in WebbotIds, file_count \in 1..MaxBatch :
       UploadBegin(webbot_id, file_count)
  \/ \E file \in UploadFiles : UploadSkip(file)
  \/ \E file \in UploadFiles, t1 \in Times, t2 \in Times :
       UploadCreate(file, t1, t2)
  \/ \E outcome \in StageOutcomes : UploadStage(outcome)
  \/ \E outcome \in TransferOutcomes : UploadPush(outcome)
  \/ \E t \in Times : UploadRecord(t)
  \/ \E t \in Times : UploadExcept(t)
  \/ UploadAppend
  \/ UploadReturn
  \/ \E webbot_id \in WebbotIds, file_id \in RequestIds,
        outcome \in TransferOutcomes : Download(webbot_id, file_id, outcome)
  \/ \E ct \in ContentTypes, data \in Bodies, t1 \in Times, t2 \in Times :
       Post(ct, data, t1, t2)
  \/ \E ct \in ContentTypes, file_id \in RequestIds, data \in Bodies,
        t \in Times : Put(ct, file_id, data, t)
  \/ \E file_id \in RequestIds, t \in Times : Delete(file_id, t)
  \/ \E file_id \in RequestIds : GetFile(file_id)
  \/ \E query_args \in QueryArgs : ListFiles(query_args)

Spec == Init /\ [][Next]_vars

(* The upload endpoint on its own, with readers.  No handler ever reads a  *)
(* timestamp back, so here the clock stands still.                         *)
NextUpload ==
  \/ \E webbot_id \in WebbotIds : UploadNoFiles(webbot_id)
  \/ \E webbot_id \in WebbotIds, file_count \in 1..MaxBatch :
       UploadBegin(webbot_id, file_count)
  \/ \E file \in UploadFiles : UploadSkip(file)
  \/ \E file \in UploadFiles : UploadCreate(file, now, now)
  \/ \E outcome \in StageOutcomes : UploadStage(outcome)
  \/ \E outcome \in TransferOutcomes : UploadPush(outcome)
  \/ UploadRecord(now)
  \/ UploadExcept(now)
  \/ UploadAppend
  \/ UploadReturn
  \/ \E file_id \in RequestIds : GetFile(file_id)

SpecUpload == Init /\ [][NextUpload]_vars

(* The record store with its routes and the calls made on the model class; *)
(* here the clock runs.                                                    *)
QueryNames == {<<"a.txt">>, <<"b.pdf">>}
QueryWebbotIds == {1, 2}

NextStore ==
  \/ \E ct \in ContentTypes, data \in Bodies, t1 \in Times, t2 \in Times :
       Post(ct, data, t1, t2)
  \/ \E ct \in ContentTypes, file_id \in RequestIds, data \in Bodies,
        t \in Times : Put(ct, file_id, data, t)
  \/ \E file_id \in RequestIds, t \in Times : Delete(file_id, t)
  \/ \E file_id \in RequestIds : GetFile(file_id)
  \/ \E query_args \in QueryArgs : ListFiles(query_args)
  \/ \E name \in QueryNames : FindByName(name)
  \/ \E webbot_id \in QueryWebbotIds : FindByWebbotId(webbot_id)
  \/ \E file_id \in RequestIds, data \in Bodies, t \in Times :
       UpdateCall(file_id, data, t)

SpecStore == Init /\ [][NextStore]_vars

(* Every route that writes a record; the clock stands still.              *)
NextWrites ==
  \/ \E webbot_id \in WebbotIds, file_count \in 1..MaxBatch :
       UploadBegin(webbot_id, file_count)
  \/ \E file \in UploadFiles : UploadSkip(file)
  \/ \E file \in UploadFiles : UploadCreate(file, now, now)
  \/ \E outcome \in StageOutcomes : UploadStage(outcome)
  \/ \E outcome \in TransferOutcomes : UploadPush(outcome)
  \/ UploadRecord(now)
  \/ UploadExcept(now)
  \/ UploadAppend
  \/ UploadReturn
  \/ \E ct \in ContentTypes, data \in Bodies : Post(ct, data, now, now)
  \/ \E ct \in ContentTypes, file_id \in RequestIds, data \in Bodies :
       Put(ct, file_id, data, now)
  \/ \E file_id \in RequestIds : Delete(file_id, now)

SpecWrites == Init /\ [][NextWrites]_vars

(* ------------------------ sessions of the workers --------------------- *)
(* db.session is scoped to the worker that serves the request.  An        *)
(* instance the worker has loaded and assigned to stays in its session     *)
(* with the values it was loaded with (loaded) and its present values      *)
(* (rec) until a commit of that session writes it.                         *)

(* Files.query.get on worker w: the instance the session already holds,    *)
(* else one loaded from the row                                            *)
Instance(w, file_id) ==
  IF file_id \in DOMAIN sess[w].dirty
  THEN sess[w].dirty[file_id]
  ELSE [loaded |-> Find(file_id), rec |-> Find(file_id)]

(* a flush that writes every column of the instance *)
FlushRow_WholeRow(row, inst) == inst.rec

(* the UPDATE a flush emits for one instance: it sets the columns whose    *)
(* value was changed since the instance was loaded                         *)
FlushRow(row, inst) ==
  [c \in DOMAIN row |->
     IF inst.rec[c] # inst.loaded[c] THEN inst.rec[c] ELSE row[c]]

(* db.session.commit(): every instance of the session is flushed *)
Commit(dirty) ==
  [id \in DOMAIN db |->
     IF id \in DOMAIN dirty THEN FlushRow(db[id], dirty[id]) ELSE db[id]]

(* FilesCollection.post on a worker whose session holds nothing *)
PostOn(w, ct, data, t1, t2) ==
  /\ sess[w] = NoSession
  /\ Post(ct, data, t1, t2)

(* FilesResource.put on worker w up to deserialize.  A rejected body has   *)
(* already been assigned to the instance as far as deserialize got; kept   *)
(* tells whether the session outlives the request (the application         *)
(* context init_db pushed is still the worker's) or is removed with the    *)
(* request's own application context.                                      *)
PutFind(w, ct, file_id, data, kept) ==
  /\ sess[w].pc = "idle"
  /\ Accept
  /\ IF ~CheckContentType(ct)
     THEN /\ resp' = Response("put", HTTP_415_UNSUPPORTED_MEDIA_TYPE, file_id)
          /\ UNCHANGED sess
     ELSE IF file_id \notin Ids
     THEN /\ resp' = Response("put", HTTP_404_NOT_FOUND, file_id)
          /\ UNCHANGED sess
     ELSE LET inst == Instance(w, file_id)
              d == Deserialize(inst.rec, data) IN
          IF d.err # ""
          THEN /\ resp' = [Response("put", HTTP_400_BAD_REQUEST, file_id)
                             EXCEPT !.error = "DataValidationError"]
               /\ sess' = [sess EXCEPT ![w].dirty =
                             IF kept
                             THEN Store(@, file_id,
                                        [loaded |-> inst.loaded, rec |-> d.rec])
                             ELSE NoSession.dirty]
          ELSE /\ sess' = [sess EXCEPT ![w] =
                             [pc |-> "put", id |-> file_id,
                              dirty |-> Store(sess[w].dirty, file_id,
                                [loaded |-> inst.loaded,
                                 rec |-> [d.rec EXCEPT !.id = file_id]])]]
               /\ UNCHANGED resp
  /\ UNCHANGED <<db, nextId, now, s3, disk, upl, sent>>

(* FilesResource.put on worker w from files.update() on: the timestamp,    *)
(* the commit of the worker's session, the answer.  record is the          *)
(* instance as this request wrote it.                                      *)
PutUpdate(w, t) ==
  /\ sess[w].pc = "put"
  /\ Utcnow(t)
  /\ LET file_id == sess[w].id
         inst == [sess[w].dirty[file_id] EXCEPT !.rec.modified_date = t]
     IN /\ db' = Commit(Store(sess[w].dirty, file_id, inst))
        /\ resp' = [Response("put", HTTP_200_OK, file_id) EXCEPT
                      !.record = inst.rec]
  /\ now' = t
  /\ sess' = [sess EXCEPT ![w] = NoSession]
  /\ UNCHANGED <<nextId, s3, disk, upl, nreq, sent>>

(* FilesResource.delete on worker w: the commit of Files.delete writes     *)
(* whatever the worker's session holds                                     *)
DeleteOn(w, file_id, t) ==
  /\ sess[w].pc = "idle"
  /\ Accept
  /\ Utcnow(t)
  /\ IF file_id \in Ids
     THEN LET inst == [Instance(w, file_id) EXCEPT
                         !.rec.active = FALSE, !.rec.modified_date = t]
          IN /\ db' = Commit(Store(sess[w].dirty, file_id, inst))
             /\ now' = t
             /\ sess' = [sess EXCEPT ![w] = NoSession]
     ELSE UNCHANGED <<db, now, sess>>
  /\ resp' = [Response("delete", HTTP_204_NO_CONTENT, file_id) EXCEPT
                !.record = Find(file_id)]
  /\ UNCHANGED <<nextId, s3, disk, upl, sent>>

NextSession ==
  \/ \E w \in Workers, ct \in ContentTypes, data \in Bodies, t1, t2 \in Times :
       PostOn(w, ct, data, t1, t2)
  \/ \E w \in Workers, ct \in ContentTypes, file_id \in RequestIds,
        data \in Bodies, kept \in BOOLEAN :
       PutFind(w, ct, file_id, data, kept)
  \/ \E w \in Workers, t \in Times : PutUpdate(w, t)
  \/ \E w \in Workers, file_id \in RequestIds, t \in Times :
       DeleteOn(w, file_id, t)

SpecSession == Init /\ [][NextSession]_vars

(* ======================= properties of the upload ===================== *)
(* the record of the file the upload loop is working on *)
Current == upl.file_meta.id

(* the push of submitted file k failed: the store client swallowed a       *)
(* ClientError (returned False) or raised anything else                    *)
PushFailed(k) == upl.pushed[k].outcome \in {"ClientError", "OtherError"}

(* an exception was raised while file k was staged or pushed *)
Raised(k) == upl.pushed[k].outcome \in {"OSError", "OtherError"}

(* position in the results of the entry of submitted file k *)
ResultIndex(k) ==
  Cardinality({j \in 1..k : upl.pushed[j].outcome # "skipped"})

(* the loop is done with submitted file k *)
Handled(k) == k \in 1..Len(upl.pushed) /\ k < upl.i

(* C1: whenever the push of a file's staged copy fails (upload_files         *)
(* returning False included), the record is persisted as UPLOAD_FAILED, no   *)
(* s3_path is recorded, and the per-file result reports UPLOAD_FAILED.       *)
C1_PushFailureMarksFailed ==
  /\ (upl.pc = "append" /\ PushFailed(upl.i)) =>
        /\ db[Current].status = UPLOAD_FAILED
        /\ db[Current].s3_path = NoPath
  /\ \A k \in 1..Len(upl.pushed) :
        (Handled(k) /\ PushFailed(k)) =>
           upl.results[ResultIndex(k)].status = UPLOAD_FAILED

(* C2: when the push of some file of a batch of N fails, the response still *)
(* has file_count = N and N results, every file whose push failed is         *)
(* reported UPLOAD_FAILED, and every file whose push succeeded is reported   *)
(* UPLOAD_SUCCESS whatever happened to the others.                           *)
C2_BatchIsolation ==
  (/\ upl.pc = "loop"
   /\ upl.i > upl.file_count
   /\ \E k \in 1..Len(upl.pushed) : PushFailed(k)) =>
     /\ Len(upl.results) = upl.file_count
     /\ \A k \in 1..upl.file_count :
          /\ PushFailed(k) => upl.results[k].status = UPLOAD_FAILED
          /\ upl.pushed[k].outcome = "ok" =>
               upl.results[k].status = UPLOAD_SUCCESS

(* C3: within an upload attempt, a record persisted as UPLOAD_FAILED is      *)
(* only ever followed by UPLOAD_FAILED.                                      *)
C3_FailedStaysFailed ==
  [][\A id \in DOMAIN db :
       (upl.pc # "idle" /\ db[id].status = UPLOAD_FAILED) =>
          db'[id].status = UPLOAD_FAILED]_vars

(* C3 witness: the record of the file in hand is persisted as UPLOAD_FAILED  *)
(* and the attempt goes on.                                                  *)
C3_Witness ==
  /\ upl.pc = "append"
  /\ upl.i < upl.file_count
  /\ db[Current].status = UPLOAD_FAILED

(* the transitions of the lifecycle state machine *)
LifecyclePaths ==
  {<<CREATED, UPLOADING>>, <<UPLOADING, UPLOAD_SUCCESS>>,
   <<UPLOADING, UPLOAD_FAILED>>, <<UPLOAD_SUCCESS, PROCESSING>>,
   <<PROCESSING, SUCCESS>>, <<PROCESSING, PROCESSING_FAILED>>}

(* C4: under any sequence of operations the persisted status of a record     *)
(* changes only along the lifecycle paths; a terminal status never changes   *)
(* and no PUT resets a status.                                               *)
C4_StatusFollowsLifecycle ==
  [][\A id \in DOMAIN db :
       \/ db'[id].status = db[id].status
       \/ <<db[id].status, db'[id].status>> \in LifecyclePaths]_vars

(* the record id holds what the successful push of submitted file k left *)
PersistedSuccess(id, k) ==
  /\ db[id].status = UPLOAD_SUCCESS
  /\ db[id].s3_path = upl.pushed[k].key
  /\ db[id].s3_path = S3Key(db[id].webbot_id, FinalSegment(db[id].name))
  /\ db[id].s3_path \in DOMAIN s3

(* C5: when the push succeeds the record is persisted as UPLOAD_SUCCESS with *)
(* s3_path equal to the key the object was pushed under (prefix + final      *)
(* segment of the filename), and the per-file result reports UPLOAD_SUCCESS  *)
(* with table_count 0 and no derived ids.                                    *)
C5_SuccessRecorded ==
  \A k \in 1..Len(upl.pushed) :
    upl.pushed[k].outcome = "ok" =>
      /\ (k = upl.i /\ upl.pc = "append") => PersistedSuccess(Current, k)
      /\ Handled(k) =>
           LET r == upl.results[ResultIndex(k)]
           IN /\ r.status = UPLOAD_SUCCESS
              /\ r.table_count = 0
              /\ r.tables = <<>>
              /\ r.text_file_id = 0
              /\ PersistedSuccess(r.file_id, k)

(* C5 witness: a file submitted under a name with a directory part has been  *)
(* pushed, recorded and reported.                                            *)
C5_Witness ==
  /\ upl.pc = "loop"
  /\ Handled(1)
  /\ upl.pushed[1].outcome = "ok"
  /\ Len(upl.results[1].filename) = 2
  /\ db[upl.results[1].file_id].status = UPLOAD_SUCCESS

(* C6 as stated: the record an upload creates is first persisted as CREATED  *)
(* and is UPLOADING by the time staging begins.                              *)
C6_FirstPersistedCreated ==
  /\ [][\A id \in (DOMAIN db') \ (DOMAIN db) :
          upl'.pc = "stage" => db'[id].status = CREATED]_vars
  /\ [](upl.pc = "stage" => db[Current].status = UPLOADING)

(* C6 amended: the record an upload creates is persisted once before staging *)
(* begins, already as UPLOADING; a reader polling it during the attempt can  *)
(* observe UPLOADING and never observes CREATED.                             *)
C6_PersistedOnceAsUploading ==
  /\ [][\A id \in (DOMAIN db') \ (DOMAIN db) :
          upl'.pc = "stage" => db'[id].status = UPLOADING]_vars
  /\ [](upl.pc = "stage" => db[Current].status = UPLOADING)
  /\ []((/\ upl.pc # "idle"
         /\ resp.op = "get"
         /\ resp.code = HTTP_200_OK
         /\ resp.id = Current) => resp.status # CREATED)

(* C6 witness: a reader has polled the record before staging and seen        *)
(* UPLOADING.                                                                *)
C6_Witness ==
  /\ upl.pc = "stage"
  /\ resp.op = "get"
  /\ resp.id = Current
  /\ resp.status = UPLOADING

C8_UploadDownloadRoundTrip ==
  (/\ resp.op = "download"
   /\ resp.code = HTTP_200_OK
   /\ resp.fetched
   /\ resp.id \in DOMAIN sent
   /\ db[resp.id].status = UPLOAD_SUCCESS) =>
     /\ db[resp.id].s3_path = sent[resp.id].key
     /\ resp.content = sent[resp.id].content
     /\ resp.download_name = db[resp.id].name

(* C9: a download of an id that has no record answers 404.                   *)
C9_DownloadUnknownIs404 ==
  (resp.op = "download" /\ resp.id \notin Ids) =>
     resp.code = HTTP_404_NOT_FOUND

(* C10: a download only ever streams bytes that this same request fetched    *)
(* from the record's remote path; when the fetch fails nothing is streamed.  *)
C10_StreamsOnlyFetchedBytes ==
  (resp.op = "download" /\ resp.code = HTTP_200_OK) => resp.fetched
(* ==================== properties of the record store =================== *)
(* a request of the given kind has just been answered *)
Answered(op) == nreq' = nreq + 1 /\ resp'.op = op

C12_InactiveHiddenButFound ==
  /\ [][(Answered("list") /\ resp'.query = {}) =>
          /\ resp'.code = HTTP_200_OK
          /\ resp'.listed = {id \in DOMAIN db' : db'[id].active}]_vars
  /\ [][(Answered("get") /\ resp'.id \in DOMAIN db') =>
          resp'.code = HTTP_200_OK]_vars

(* the default listing answered with an active record while an inactive    *)
(* one is stored                                                           *)
C12_Witness ==
  /\ resp.op = "list" /\ resp.query = {}
  /\ \E id \in Ids : ~db[id].active /\ id \notin resp.listed
  /\ \E id \in Ids : db[id].active /\ id \in resp.listed

(* C13: DELETE /files/{id} always answers 204; on a record that is already *)
(* inactive it leaves active = FALSE, and on an id without a record it     *)
(* creates and changes nothing.                                            *)
C13_DeleteIdempotent ==
  [][Answered("delete") =>
       /\ resp'.code = HTTP_204_NO_CONTENT
       /\ DOMAIN db' = DOMAIN db
       /\ resp'.id \in DOMAIN db => ~db'[resp'.id].active
       /\ resp'.id \notin DOMAIN db => db' = db /\ now' = now]_vars

(* a record that was already inactive has been deleted again *)
C13_Witness ==
  /\ resp.op = "delete" /\ resp.code = HTTP_204_NO_CONTENT
  /\ resp.id \in Ids /\ ~resp.record.active /\ ~db[resp.id].active

(* C14: GET /files?webbot_id=<owner> returns only the owner's records that *)
(* have not been soft-deleted.                                             *)
C14_OwnerListingOmitsDeleted ==
  [][\A w \in {1, 2} :
       (Answered("list") /\ resp'.query = {<<"webbot_id", w>>}) =>
          resp'.listed =
            {id \in DOMAIN db' : db'[id].webbot_id = w /\ db'[id].active}]_vars

C16_FindersActiveOnly ==
  /\ [][Answered("find_by_webbot_id") =>
          \A c \in resp'.query :
            resp'.listed = {id \in DOMAIN db' :
                              db'[id].webbot_id = c[2] /\ db'[id].active}]_vars
  /\ [][Answered("find_by_name") =>
          \A c \in resp'.query :
            resp'.listed = {id \in DOMAIN db' :
                              db'[id].name = c[2] /\ db'[id].active}]_vars
(* C17: a record has no id until create() persists it; create() gives it  *)
(* an id no other persisted record has and the record is found under that  *)
(* id; the id of a persisted record never changes afterwards.              *)
C17_IdFreshAndImmutable ==
  /\ [](/\ NewFiles.id = 0
        /\ \A data \in Bodies : Deserialize(NewFiles, data).rec.id = 0
        /\ upl.pc = "loop" /\ upl.i = 1 => upl.file_meta.id = 0)
  /\ [](\A id \in Ids : id # 0 /\ Find(id).id = id)
  /\ [][\A id \in (DOMAIN db') \ (DOMAIN db) :
          /\ DOMAIN db' = DOMAIN db \cup {id}
          /\ \A other \in DOMAIN db :
               db'[other] = db[other] /\ db[other].id # db'[id].id]_vars
  /\ [][\A id \in DOMAIN db :
          id \in DOMAIN db' /\ db'[id].id = db[id].id]_vars

(* a second record was created, and the first has since been rewritten     *)
(* under its id                                                            *)
C17_Witness ==
  /\ Cardinality(Ids) = 2
  /\ \E id \in Ids : db[id].status = UPLOAD_FAILED
  /\ resp.op = "put" /\ resp.code = HTTP_200_OK
(* bodies that deserialize accepts *)
ValidBodies == {data \in Bodies : Deserialize(NewFiles, data).err = ""}

(* C18: update() on a record without an id fails with a validation error,  *)
(* commits nothing and leaves the record, its modified timestamp included, *)
(* as it was; update() on a record with an id refreshes the modified       *)
(* timestamp and commits every field, so that lookup by id returns them.   *)
C18_UpdateNeedsId ==
  /\ [](\A data \in ValidBodies, t \in Times :
          LET self == Deserialize(NewFiles, data).rec
          IN Update(self, t) = [err |-> "DataValidationError", rec |-> self])
  /\ [][(Answered("update") /\ resp'.record.id = 0) =>
          /\ resp'.error = "DataValidationError"
          /\ db' = db /\ now' = now]_vars
  /\ [][(Answered("update") /\ resp'.record.id # 0) =>
          /\ resp'.error = ""
          /\ resp'.record.id \in DOMAIN db
          /\ now' >= now
          /\ db' = [db EXCEPT ![resp'.record.id] =
                      [resp'.record EXCEPT !.modified_date = now']]]_vars
  /\ [][(Answered("put") /\ resp'.code = HTTP_200_OK) =>
          /\ now' >= now
          /\ db'[resp'.id].modified_date = now'
          /\ db'[resp'.id].id = resp'.id]_vars

(* update() was refused on an unsaved record while the store holds rows *)
C18_Witness ==
  /\ resp.op = "update" /\ resp.error = "DataValidationError"
  /\ resp.record.id = 0 /\ resp.record.name # NoName
  /\ Ids # {}

(* the cases in which an input must be refused *)
Malformed(data) ==
  \/ data.kind # "dict"
  \/ "name" \notin data.has
  \/ "webbot_id" \notin data.has
  \/ ~data.webbot_id.ok

(* C19: deserialization fails when the input is not a dictionary, when     *)
(* name or webbot_id is missing and when webbot_id is not coercible to an  *)
(* integer; POST /files with such a body answers 400 and creates no        *)
(* record.                                                                 *)
C19_MalformedRejected ==
  /\ [](\A data \in Bodies : \A self \in {NewFiles} \cup {db[id] : id \in Ids} :
          Malformed(data) => Deserialize(self, data).err # "")
  /\ [][\A data \in Bodies, t1 \in Times, t2 \in Times :
          (Malformed(data) /\ Post("application/json", data, t1, t2)) =>
             /\ resp'.code = HTTP_400_BAD_REQUEST
             /\ db' = db /\ nextId' = nextId]_vars

(* a POST was refused while the store holds a record *)
C19_Witness ==
  /\ resp.op = "post" /\ resp.code = HTTP_400_BAD_REQUEST
  /\ Ids # {} /\ nextId = Cardinality(Ids) + 1

RoundTripFields ==
  {"webbot_id", "name", "s3_path", "file_type", "source", "source_url",
   "labels", "active", "status", "allow_questions", "public", "extra_info"}

(* C20: deserializing the serialization of a persisted record into a new   *)
(* record reproduces every field but the id and the timestamps, and leaves *)
(* the new record without an id.                                           *)
C20_SerializeRoundTrip ==
  \A id \in Ids :
    LET d == Deserialize(NewFiles, Serialize(db[id]))
    IN /\ d.err = ""
       /\ d.rec.id = 0
       /\ \A f \in RoundTripFields : d.rec[f] = db[id][f]

(* a record created from a payload that sets every optional field *)
C20_Witness ==
  /\ resp.op = "post" /\ resp.code = HTTP_201_CREATED
  /\ db[resp.id].status = UPLOAD_SUCCESS /\ db[resp.id].public
  /\ ~db[resp.id].active /\ db[resp.id].created_date > 0
(* C21: a POST /files or PUT /files/{id} whose Content-Type is missing or  *)
(* is not application/json answers 415 and neither creates nor changes a   *)
(* record, whatever its body and its target.                               *)
C21_WrongContentTypeIs415 ==
  /\ [][\A ct \in ContentTypes \ {"application/json"}, data \in Bodies,
          t1 \in Times, t2 \in Times :
          Post(ct, data, t1, t2) =>
             /\ resp'.code = HTTP_415_UNSUPPORTED_MEDIA_TYPE
             /\ db' = db /\ nextId' = nextId /\ now' = now]_vars
  /\ [][\A ct \in ContentTypes \ {"application/json"}, data \in Bodies,
          file_id \in RequestIds, t \in Times :
          Put(ct, file_id, data, t) =>
             /\ resp'.code = HTTP_415_UNSUPPORTED_MEDIA_TYPE
             /\ db' = db /\ nextId' = nextId /\ now' = now]_vars

(* a PUT aimed at a stored record was answered 415 *)
C21_Witness ==
  /\ resp.op = "put" /\ resp.code = HTTP_415_UNSUPPORTED_MEDIA_TYPE
  /\ resp.id \in Ids

C23_ModifiedNotBeforeCreated ==
  /\ [](\A id \in Ids : db[id].modified_date >= db[id].created_date)
  /\ [][\A id \in DOMAIN db :
          /\ db'[id].created_date = db[id].created_date
          /\ db'[id].modified_date >= db[id].modified_date]_vars
  /\ [][\A id \in (DOMAIN db') \ (DOMAIN db) :
          /\ db'[id].created_date >= now
          /\ db'[id].modified_date = now']_vars

(* a record was written again at a later reading of the clock *)
C23_Witness ==
  \E id \in Ids : ~db[id].active /\ db[id].modified_date > db[id].created_date

(* C24: the object store client never raises: upload_files and             *)
(* download_files return False for every failure of the transfer.          *)
C24_ClientNeverRaises ==
  /\ \A k \in 1..Len(upl.pushed) : upl.pushed[k].outcome # "OtherError"
  /\ resp.op = "download" => resp.error # "OtherError"
(* C26: uploads that carry the same filename for the same owner do not    *)
(* overwrite each other: the object under the s3_path of every             *)
(* UPLOAD_SUCCESS record holds the bytes of that record's own upload, and  *)
(* no two such records share an s3_path.                                   *)
C26_SameNameKeptApart ==
  \A i \in DOMAIN sent :
    db[i].status = UPLOAD_SUCCESS =>
      /\ s3[db[i].s3_path] = sent[i].content
      /\ \A j \in (DOMAIN sent) \ {i} :
           db[j].status = UPLOAD_SUCCESS => db[j].s3_path # db[i].s3_path

(* C27: every record the upload endpoint persisted as UPLOAD_SUCCESS has a *)
(* non-empty s3_path under which the object store holds an object.         *)
C27_SuccessMeansStored ==
  \A id \in Ids :
    db[id].status = UPLOAD_SUCCESS =>
      db[id].s3_path # NoPath /\ db[id].s3_path \in DOMAIN s3

OptionalFields == RoundTripFields \ {"name", "webbot_id"}

(* C28: PUT /files/{id} changes only the fields its payload carries: every *)
(* field the payload omits keeps its stored value.                         *)
C28_PutKeepsOmittedFields ==
  [][\A data \in ValidBodies, file_id \in RequestIds, t \in Times :
       (file_id \in DOMAIN db /\ Put("application/json", file_id, data, t)) =>
          \A f \in OptionalFields \ data.has :
             db'[file_id][f] = db[file_id][f]]_vars

(* C29: when the upload answers with its batch, no record is left in       *)
(* UPLOADING, every result carries the id and the persisted status of its  *)
(* record, and there are no more results than submitted files.             *)
C29_BatchMatchesStore ==
  [][(upl.pc # "idle" /\ upl'.pc = "idle") =>
       /\ resp'.code = HTTP_200_OK
       /\ Len(resp'.results) <= resp'.file_count
       /\ \A id \in DOMAIN db' : db'[id].status # UPLOADING
       /\ \A k \in 1..Len(resp'.results) :
            LET r == resp'.results[k]
            IN /\ r.status \in {UPLOAD_SUCCESS, UPLOAD_FAILED}
               /\ r.file_id \in DOMAIN db'
               /\ db'[r.file_id].id = r.file_id
               /\ db'[r.file_id].status = r.status
       /\ \A k, l \in 1..Len(resp'.results) :
            k # l => resp'.results[k].file_id # resp'.results[l].file_id]_vars

(* a batch of two was answered, one file stored and one failed *)
C29_Witness ==
  /\ upl.pc = "idle" /\ resp.op = "upload" /\ resp.file_count = 2
  /\ Len(resp.results) = 2
  /\ resp.results[1].status = UPLOAD_FAILED
  /\ resp.results[2].status = UPLOAD_SUCCESS
  /\ db[resp.results[2].file_id].status = UPLOAD_SUCCESS

(* worker w commits the PUT it is handling *)
PutCommits(w) == sess[w].pc = "put" /\ sess'[w].pc = "idle"

C30_RejectedLeavesNoTrace ==
  /\ [][(nreq' # nreq /\ resp'.code = HTTP_400_BAD_REQUEST) =>
          (db' = db /\ nextId' = nextId)]_vars
  /\ [][Answered("delete") =>
          \A id \in DOMAIN db :
            /\ db'[id].name = db[id].name
            /\ db'[id].labels = db[id].labels]_vars


====
